---------------------------- MODULE Spec2Model ----------------------------
(***************************************************************************)
(* A model of the text-aggregation and relevance-filter functions of       *)
(* akasha/helper.py: _get_text, retri_history_messages, self_RAG and       *)
(* check_relevant_answer (with call_batch_model), and of the dataset       *)
(* requests of routers/datasets.py.  Each function is a small machine:     *)
(* its arguments are drawn in the initial state, its locals are the        *)
(* variables, and one action models one step of its control flow.          *)
(*                                                                         *)
(* Python strings are sequences of one-character strings.  Python list     *)
(* indices are 0-based; At(s, k) reads s[k] as Python does.                *)
(***************************************************************************)
EXTENDS Integers, Sequences, FiniteSets, TLC

VARIABLES
    tokenizer,            \* myTokenizer.compute_tokens: text -> count, for the
                          \* texts counted so far
    \* ---- _get_text ----
    gt_texts,             \* texts
    gt_previous_summary,  \* previous_summary
    gt_start,             \* the value of i the caller passed
    gt_max_input_tokens,  \* max_input_tokens
    gt_i,                 \* the local i
    gt_cur_count,         \* cur_count
    gt_words_len,         \* words_len
    gt_cur_text,          \* cur_text
    gt_pc,                \* "entry", "while", "done" (returned), "raised" (IndexError)
    gt_first,             \* history: the value of i the first call was passed
    \* ---- retri_history_messages ----
    h_messages,           \* messages: a list of [role, content]
    h_pairs,              \* pairs
    h_max_input_tokens,   \* max_input_tokens
    h_range,              \* the next value range(len(messages) - 1, -1, -2) yields
    h_i,                  \* the loop variable i
    h_cur_len,            \* cur_len
    h_count,              \* count
    h_ret,                \* ret
    h_result,             \* the tuple returned: [text, len]
    h_pc,                 \* "for", "body", "after", "done"
    h_src,                \* history: for each entry of ret, the index of its message
    h_examined,           \* history: the values of i whose roles were tested
    \* ---- self_RAG ----
    rag_docs,             \* docs
    rag_process_num,      \* process_num
    rag_earlyend_num,     \* earlyend_num
    rag_max_view_num,     \* max_view_num
    rag_count,            \* count
    rag_irre_count,       \* irre_count of the last batch graded
    rag_results,          \* results
    rag_pc,               \* "while", "done" (returned), "raised"
    rag_docs_arg,         \* history: docs as the caller passed it
    rag_picked,           \* history: for each entry of results, its index in docs
    rag_calls,            \* history: the calls of call_batch_model, each
                          \* [idx: the indices in docs of its prompts,
                          \*  responses: what model.batch returned,
                          \*  returned: whether call_batch_model returned]
    \* ---- check_relevant_answer ----
    cra_batch_responses,  \* batch_responses
    cra_results,          \* results
    cra_pc,               \* "call", "done" (returned), "raised"
    cra_picked,           \* history: for each entry of results, its index in
                          \* batch_responses
    cra_calls,            \* history: the calls of call_batch_model, as rag_calls
    \* ---- routers/datasets.py ----
    ds_store,             \* the files of DATASET_CONFIG_PATH: uid -> the config
                          \* that <uid>.json holds; has_shared_users tells
                          \* whether the config has the key 'shared_users'
    ds_call,              \* the last request handled and the status returned
    ds_before,            \* history: what <uid>.json of that request held
                          \* before it was handled
    ds_response,          \* the 'response' of the last get_use_dataset_list
    ds_edit               \* history: for an update_dataset request, its
                          \* new_dataset_name, upload_files and delete_files,
                          \* and what the file of the new name held before

gtVars == <<gt_texts, gt_previous_summary, gt_start, gt_max_input_tokens,
            gt_i, gt_cur_count, gt_words_len, gt_cur_text, gt_pc, gt_first>>

hVars == <<h_messages, h_pairs, h_max_input_tokens, h_range, h_i, h_cur_len,
           h_count, h_ret, h_result, h_pc, h_src, h_examined>>

ragVars == <<rag_docs, rag_process_num, rag_earlyend_num, rag_max_view_num,
             rag_count, rag_irre_count, rag_results, rag_pc, rag_docs_arg,
             rag_picked, rag_calls>>

craVars == <<cra_batch_responses, cra_results, cra_pc, cra_picked, cra_calls>>

dsVars == <<ds_store, ds_call, ds_before, ds_response, ds_edit>>

vars == <<tokenizer, gtVars, hVars, ragVars, craVars, dsVars>>

(***************************************************************************)
(* Bounds of the model.                                                    *)
(***************************************************************************)
MaxTok == 2
MaxChunks == 3
MaxBudget == 4
MaxMessages == 4
MaxPairs == 2
MaxDocs == 5
MaxProcessNum == 3
MaxEarlyEnd == 2
MaxViewNum == 5
MaxAnswers == 2
MaxDatasets == 2

NL == "\n"

\* Python's s[k] for 0 <= k < len(s), and for -len(s) <= k < 0 (from the end).
At(s, k) == IF k < 0 THEN s[Len(s) + k + 1] ELSE s[k + 1]

\* Whether Python's s[k] raises IndexError.
IndexError(s, k) == k >= Len(s) \/ k < -Len(s)

\* All sequences over S of length at most n.
SeqUpTo(S, n) == UNION {[1..k -> S] : k \in 0..n}

TokVals == 0..MaxTok

\* myTokenizer.compute_tokens is an external, deterministic tokenizer.  The
\* counts it may return for text, given the counts tk it has returned
\* before: the same count for a text seen before, any count otherwise.
compute_tokens(tk, text) == IF text \in DOMAIN tk THEN {tk[text]} ELSE TokVals

\* The counts returned so far, after text was counted as n.
Counted(tk, text, n) == IF text \in DOMAIN tk THEN tk ELSE tk @@ (text :> n)

(***************************************************************************)
(* _get_text                                                               *)
(***************************************************************************)
Chunks == {<<"a">>, <<"b", "c">>}
Summaries == {<<>>, <<"s">>}

GT_Init ==
    /\ gt_texts \in SeqUpTo(Chunks, MaxChunks)
    /\ gt_previous_summary \in Summaries
    /\ gt_start \in 0..Len(gt_texts)
    /\ gt_max_input_tokens \in -1..MaxBudget
    /\ gt_i = gt_start
    /\ gt_cur_count = 0
    /\ gt_words_len = 0
    /\ gt_cur_text = <<>>
    /\ gt_pc = "entry"
    /\ gt_first = gt_start

GT_Idle ==
    /\ gt_texts = <<>>
    /\ gt_previous_summary = <<>>
    /\ gt_start = 0
    /\ gt_max_input_tokens = 0
    /\ gt_i = 0
    /\ gt_cur_count = 0
    /\ gt_words_len = 0
    /\ gt_cur_text = <<>>
    /\ gt_pc = "idle"
    /\ gt_first = 0

\* Mutant of GT_WhileCond: "<=" in place of "<".
GT_WhileCond_Le(count, wlen, idx) ==
    count + wlen <= gt_max_input_tokens /\ idx < Len(gt_texts)

\* Mutant of GT_WhileCond: the budget is compared with the next chunk alone.
GT_WhileCond_ChunkOnly(count, wlen, idx) ==
    wlen <= gt_max_input_tokens /\ idx < Len(gt_texts)

\* Mutant of GT_WhileCond: the loop stops one token before the budget.
GT_WhileCond_Early(count, wlen, idx) ==
    count + wlen + 1 < gt_max_input_tokens /\ idx < Len(gt_texts)

\* Mutant of GT_WhileCond: the budget is not looked at.
GT_WhileCond_NoBudget(count, wlen, idx) == idx < Len(gt_texts)

\* The while condition.
GT_WhileCond(count, wlen, idx) ==
    count + wlen < gt_max_input_tokens /\ idx < Len(gt_texts)

\* Mutant of GT_Append: the separator is left out.
GT_Append_NoNewline(text, chunk) == text \o chunk

\* cur_text += texts[i] + "\n"
GT_Append(text, chunk) == text \o chunk \o <<NL>>

\* Mutant of GT_NextCount: the count of the chunk replaces the running count.
GT_NextCount_Replace(count, wlen) == wlen

\* cur_count += words_len
GT_NextCount(count, wlen) == count + wlen

\* cur_count = compute_tokens(previous_summary); words_len =
\* compute_tokens(texts[i]); cur_text = "".
GT_Entry ==
    /\ gt_pc = "entry"
    /\ ~IndexError(gt_texts, gt_i)
    /\ \E c \in compute_tokens(tokenizer, gt_previous_summary) :
         LET tk == Counted(tokenizer, gt_previous_summary, c) IN
         \E w \in compute_tokens(tk, At(gt_texts, gt_i)) :
            /\ gt_cur_count' = c
            /\ gt_words_len' = w
            /\ tokenizer' = Counted(tk, At(gt_texts, gt_i), w)
    /\ gt_cur_text' = <<>>
    /\ gt_pc' = "while"
    /\ UNCHANGED <<gt_texts, gt_previous_summary, gt_start,
                   gt_max_input_tokens, gt_i, gt_first>>
    /\ UNCHANGED <<hVars, ragVars, craVars, dsVars>>

\* texts[i] raises IndexError before the loop is reached.
GT_EntryIndexError ==
    /\ gt_pc = "entry"
    /\ IndexError(gt_texts, gt_i)
    /\ \E c \in compute_tokens(tokenizer, gt_previous_summary) :
            /\ gt_cur_count' = c
            /\ tokenizer' = Counted(tokenizer, gt_previous_summary, c)
    /\ gt_pc' = "raised"
    /\ UNCHANGED <<gt_texts, gt_previous_summary, gt_start,
                   gt_max_input_tokens, gt_i, gt_words_len, gt_cur_text,
                   gt_first>>
    /\ UNCHANGED <<hVars, ragVars, craVars, dsVars>>

\* One iteration of the while loop.
GT_LoopBody ==
    /\ gt_pc = "while"
    /\ GT_WhileCond(gt_cur_count, gt_words_len, gt_i)
    /\ gt_cur_count' = GT_NextCount(gt_cur_count, gt_words_len)
    /\ gt_cur_text' = GT_Append(gt_cur_text, At(gt_texts, gt_i))
    /\ gt_i' = gt_i + 1
    /\ IF gt_i + 1 < Len(gt_texts)
       THEN \E w \in compute_tokens(tokenizer, At(gt_texts, gt_i + 1)) :
               /\ gt_words_len' = w
               /\ tokenizer' = Counted(tokenizer, At(gt_texts, gt_i + 1), w)
       ELSE UNCHANGED <<gt_words_len, tokenizer>>
    /\ UNCHANGED <<gt_texts, gt_previous_summary, gt_start,
                   gt_max_input_tokens, gt_pc, gt_first>>
    /\ UNCHANGED <<hVars, ragVars, craVars, dsVars>>

\* The loop condition is false: return cur_count, cur_text, i.
GT_Return ==
    /\ gt_pc = "while"
    /\ ~GT_WhileCond(gt_cur_count, gt_words_len, gt_i)
    /\ gt_pc' = "done"
    /\ UNCHANGED <<tokenizer, gt_texts, gt_previous_summary, gt_start,
                   gt_max_input_tokens, gt_i, gt_cur_count, gt_words_len,
                   gt_cur_text, gt_first>>
    /\ UNCHANGED <<hVars, ragVars, craVars, dsVars>>

\* A caller that packs the whole list: while the index returned is below
\* len(texts) it calls _get_text again with that index, the same seed text
\* and the same budget.
GT_Again ==
    /\ gt_pc = "done"
    /\ gt_i < Len(gt_texts)
    /\ gt_start' = gt_i
    /\ gt_cur_count' = 0
    /\ gt_words_len' = 0
    /\ gt_cur_text' = <<>>
    /\ gt_pc' = "entry"
    /\ UNCHANGED <<tokenizer, gt_texts, gt_previous_summary,
                   gt_max_input_tokens, gt_i, gt_first>>
    /\ UNCHANGED <<hVars, ragVars, craVars, dsVars>>

(***************************************************************************)
(* retri_history_messages, with role1 = "User" and role2 = "Assistant"     *)
(* (the defaults).                                                         *)
(***************************************************************************)
role1 == "User"
role2 == "Assistant"
Roles == {role1, role2}

\* The characters of a role name, as the f-strings f"{role2}: " and
\* f"{role1}: " spell them.
RoleChars(r) ==
    IF r = "User" THEN <<"U", "s", "e", "r">>
    ELSE <<"A", "s", "s", "i", "s", "t", "a", "n", "t">>

Contents == {<<"h", NL, "i">>, <<"o">>}

Messages == [role : Roles, content : Contents]

\* splitter = '\n----------------\n'
splitter == <<NL>> \o [k \in 1..16 |-> "-"] \o <<NL>>

\* str.replace('\n', '')
StripNewlines(str) == SelectSeq(str, LAMBDA c : c # NL)

\* texta = f"{role2}: " + messages[i]["content"].replace('\n', '') + "\n"
texta(m) == RoleChars(role2) \o <<":", " ">> \o StripNewlines(m.content) \o <<NL>>

\* textq = f"{role1}: " + messages[i - 1]["content"].replace('\n', '')
textq(m) == RoleChars(role1) \o <<":", " ">> \o StripNewlines(m.content)

\* ''.join(ret)
RECURSIVE Join(_)
Join(strs) == IF strs = <<>> THEN <<>> ELSE Head(strs) \o Join(Tail(strs))

\* list.reverse()
Reverse(s) == [k \in 1..Len(s) |-> s[Len(s) + 1 - k]]

\* Mutant of H_RangeStart: the walk starts one past the last message.
H_RangeStart_PastEnd(msgs) == Len(msgs)

\* range(len(messages) - 1, -1, -2): the first value.
H_RangeStart(msgs) == Len(msgs) - 1

H_Init ==
    /\ h_messages \in SeqUpTo(Messages, MaxMessages)
    /\ h_pairs \in -1..MaxPairs
    /\ h_max_input_tokens \in -1..MaxBudget
    /\ h_range = H_RangeStart(h_messages)
    /\ h_i = 0
    /\ h_cur_len = 0
    /\ h_count = 0
    /\ h_ret = <<>>
    /\ h_result = [text |-> <<>>, len |-> 0]
    /\ h_pc = "for"
    /\ h_src = <<>>
    /\ h_examined = <<>>

H_Idle ==
    /\ h_messages = <<>>
    /\ h_pairs = 0
    /\ h_max_input_tokens = 0
    /\ h_range = 0
    /\ h_i = 0
    /\ h_cur_len = 0
    /\ h_count = 0
    /\ h_ret = <<>>
    /\ h_result = [text |-> <<>>, len |-> 0]
    /\ h_pc = "idle"
    /\ h_src = <<>>
    /\ h_examined = <<>>

\* Mutant of H_PairsReached: one pair too many is let through.
H_PairsReached_Late(count, pairs) == count > pairs

\* if count >= pairs: break
H_PairsReached(count, pairs) == count >= pairs

\* Mutant of H_Overflows: a line one token over the budget is let through.
H_Overflows_Late(cur, len) == cur + len > h_max_input_tokens + 1

\* if cur_len + len_texta > max_input_tokens, and the same test for len_textq
H_Overflows(cur, len) == cur + len > h_max_input_tokens

\* Mutant of H_NoPairs: the empty result is returned only when ret is empty.
H_NoPairs_RetEmpty(count) == h_ret = <<>>

\* if count == 0
H_NoPairs(count) == count = 0

\* (messages[i]["role"] != role2) or (messages[i - 1]["role"] != role1)
H_RolesMismatch(msgs, i) ==
    At(msgs, i).role # role2 \/ At(msgs, i - 1).role # role1

\* for i in range(len(messages) - 1, -1, -2): the range yields its next value.
H_ForNext ==
    /\ h_pc = "for"
    /\ h_range > -1
    /\ h_i' = h_range
    /\ h_range' = h_range - 2
    /\ h_pc' = "body"
    /\ UNCHANGED <<tokenizer, h_messages, h_pairs, h_max_input_tokens, h_cur_len,
                   h_count, h_ret, h_result, h_src, h_examined>>
    /\ UNCHANGED <<gtVars, ragVars, craVars, dsVars>>

\* The range is exhausted: the loop ends.
H_ForExhausted ==
    /\ h_pc = "for"
    /\ ~(h_range > -1)
    /\ h_pc' = "after"
    /\ UNCHANGED <<tokenizer, h_messages, h_pairs, h_max_input_tokens, h_range,
                   h_i, h_cur_len, h_count, h_ret, h_result, h_src, h_examined>>
    /\ UNCHANGED <<gtVars, ragVars, craVars, dsVars>>

\* if count >= pairs: break
H_BreakPairs ==
    /\ h_pc = "body"
    /\ H_PairsReached(h_count, h_pairs)
    /\ h_pc' = "after"
    /\ UNCHANGED <<tokenizer, h_messages, h_pairs, h_max_input_tokens, h_range,
                   h_i, h_cur_len, h_count, h_ret, h_result, h_src, h_examined>>
    /\ UNCHANGED <<gtVars, ragVars, craVars, dsVars>>

\* The roles do not match: i += 1; continue.  The for statement assigns
\* i from the range again at the next iteration.
H_Skip ==
    /\ h_pc = "body"
    /\ ~H_PairsReached(h_count, h_pairs)
    /\ H_RolesMismatch(h_messages, h_i)
    /\ h_examined' = Append(h_examined, h_i)
    /\ h_i' = h_i + 1
    /\ h_pc' = "for"
    /\ UNCHANGED <<tokenizer, h_messages, h_pairs, h_max_input_tokens, h_range,
                   h_cur_len, h_count, h_ret, h_result, h_src>>
    /\ UNCHANGED <<gtVars, ragVars, craVars, dsVars>>

\* The roles match at i: texta and textq are built and len_texta, len_textq
\* are their token counts, the tokenizer having counted both.
H_Counted(len_texta, len_textq) ==
    LET ta == texta(At(h_messages, h_i))
        tq == textq(At(h_messages, h_i - 1))
    IN /\ h_pc = "body"
       /\ ~H_PairsReached(h_count, h_pairs)
       /\ ~H_RolesMismatch(h_messages, h_i)
       /\ len_texta \in compute_tokens(tokenizer, ta)
       /\ len_textq \in compute_tokens(Counted(tokenizer, ta, len_texta), tq)
       /\ tokenizer' = Counted(Counted(tokenizer, ta, len_texta), tq, len_textq)
       /\ h_examined' = Append(h_examined, h_i)

\* if cur_len + len_texta > max_input_tokens: break
H_BreakAssistant ==
    /\ \E len_texta, len_textq \in TokVals :
          /\ H_Counted(len_texta, len_textq)
          /\ H_Overflows(h_cur_len, len_texta)
    /\ h_pc' = "after"
    /\ UNCHANGED <<h_messages, h_pairs, h_max_input_tokens, h_range, h_i,
                   h_cur_len, h_count, h_ret, h_result, h_src>>
    /\ UNCHANGED <<gtVars, ragVars, craVars, dsVars>>

\* The assistant line fits and is appended;
\* if cur_len + len_textq > max_input_tokens: break
H_BreakUser ==
    /\ \E len_texta, len_textq \in TokVals :
          /\ H_Counted(len_texta, len_textq)
          /\ ~H_Overflows(h_cur_len, len_texta)
          /\ H_Overflows(h_cur_len + len_texta, len_textq)
          /\ h_cur_len' = h_cur_len + len_texta
    /\ h_ret' = Append(h_ret, texta(At(h_messages, h_i)))
    /\ h_src' = Append(h_src, h_i)
    /\ h_pc' = "after"
    /\ UNCHANGED <<h_messages, h_pairs, h_max_input_tokens, h_range, h_i,
                   h_count, h_result>>
    /\ UNCHANGED <<gtVars, ragVars, craVars, dsVars>>

\* Both lines fit and are appended; count += 1.
H_TakePair ==
    /\ \E len_texta, len_textq \in TokVals :
          /\ H_Counted(len_texta, len_textq)
          /\ ~H_Overflows(h_cur_len, len_texta)
          /\ ~H_Overflows(h_cur_len + len_texta, len_textq)
          /\ h_cur_len' = h_cur_len + len_texta + len_textq
    /\ h_ret' = h_ret \o <<texta(At(h_messages, h_i)),
                           textq(At(h_messages, h_i - 1))>>
    /\ h_src' = h_src \o <<h_i, (h_i - 1) % Len(h_messages)>>
    /\ h_count' = h_count + 1
    /\ h_pc' = "for"
    /\ UNCHANGED <<h_messages, h_pairs, h_max_input_tokens, h_range, h_i,
                   h_result>>
    /\ UNCHANGED <<gtVars, ragVars, craVars, dsVars>>

\* if count == 0: return "", 0
H_ReturnEmpty ==
    /\ h_pc = "after"
    /\ H_NoPairs(h_count)
    /\ h_result' = [text |-> <<>>, len |-> 0]
    /\ h_pc' = "done"
    /\ UNCHANGED <<tokenizer, h_messages, h_pairs, h_max_input_tokens, h_range,
                   h_i, h_cur_len, h_count, h_ret, h_src, h_examined>>
    /\ UNCHANGED <<gtVars, ragVars, craVars, dsVars>>

\* ret.reverse(); return splitter + ''.join(ret) + splitter, cur_len
H_Return ==
    /\ h_pc = "after"
    /\ ~H_NoPairs(h_count)
    /\ h_ret' = Reverse(h_ret)
    /\ h_src' = Reverse(h_src)
    /\ h_result' = [text |-> splitter \o Join(Reverse(h_ret)) \o splitter,
                    len |-> h_cur_len]
    /\ h_pc' = "done"
    /\ UNCHANGED <<tokenizer, h_messages, h_pairs, h_max_input_tokens, h_range,
                   h_i, h_cur_len, h_count, h_examined>>
    /\ UNCHANGED <<gtVars, ragVars, craVars, dsVars>>

(***************************************************************************)
(* self_RAG and call_batch_model.  model.batch is the external grader: it  *)
(* returns one response per prompt, or raises.                             *)
(***************************************************************************)
\* The documents are distinct objects; the k-th is [id |-> k].
DocList(n) == [k \in 1..n |-> [id |-> k]]

\* What the grader may answer to one prompt.
Responses == {<<"y", "e", "s">>, <<"Y", "e", "s", "t">>, <<"n", "o">>, <<>>}

\* str.lower(), on the letters the responses use.
LowerChar(c) == IF c = "Y" THEN "y" ELSE IF c = "E" THEN "e"
                ELSE IF c = "S" THEN "s" ELSE c

Lower(str) == [k \in 1..Len(str) |-> LowerChar(str[k])]

\* sub in str
Contains(str, sub) ==
    \E k \in 1..(Len(str) - Len(sub) + 1) : SubSeq(str, k, k + Len(sub) - 1) = sub

\* Mutant of RAG_IsRelevant: the verdict is inverted.
RAG_IsRelevant_Inverted(response) == ~Contains(Lower(response), <<"y", "e", "s">>)

\* Mutant of RAG_IsRelevant: the letter case of the response is kept.
RAG_IsRelevant_CaseSensitive(response) == Contains(response, <<"y", "e", "s">>)

\* 'yes' in response.lower()
RAG_IsRelevant(response) == Contains(Lower(response), <<"y", "e", "s">>)

\* call_batch_model raises when the responses joined are the empty string.
CallBatchEmpty(responses) == Join(responses) = <<>>

Min(a, b) == IF a < b THEN a ELSE b

\* Mutant of RAG_WhileCond: the loop looks at len(docs) only.
RAG_WhileCond_NoCeiling(count) == count < Len(rag_docs)

\* The while condition.
RAG_WhileCond(count) == count < Len(rag_docs) /\ count < rag_max_view_num

\* range(min(process_num, len(docs) - count)): the size of the batch.
RAG_BatchSize(count) ==
    LET n == Min(rag_process_num, Len(rag_docs) - count) IN IF n < 0 THEN 0 ELSE n

\* Mutant of RAG_EarlyEnd: ">" in place of ">=".
RAG_EarlyEnd_Gt(irre) == irre > rag_earlyend_num

\* if irre_count >= earlyend_num: break
RAG_EarlyEnd(irre) == irre >= rag_earlyend_num

\* Mutant of RAG_NextCount: the next batch starts one document early.
RAG_NextCount_Overlap(count) == count + rag_process_num - 1

\* Mutant of RAG_NextCount: one document is left out between two batches.
RAG_NextCount_Skip(count) == count + rag_process_num + 1

\* Mutant of RAG_NextCount: count is left as it is.
RAG_NextCount_Stay(count) == count

\* count += process_num
RAG_NextCount(count) == count + rag_process_num

\* The indices idx, in order, whose response is graded relevant.
RECURSIVE RAG_RelevantIdx(_, _)
RAG_RelevantIdx(responses, idx) ==
    IF idx >= Len(responses) THEN <<>>
    ELSE (IF RAG_IsRelevant(At(responses, idx)) THEN <<idx>> ELSE <<>>)
            \o RAG_RelevantIdx(responses, idx + 1)

\* Mutant of RAG_IrreCount: irre_count is not set back to 0 for the batch.
RAG_IrreCount_Cumulative(response_list) ==
    rag_irre_count + Len(response_list) - Len(RAG_RelevantIdx(response_list, 0))

\* irre_count = 0, then irre_count += 1 for each response of the batch that
\* is not relevant.
RAG_IrreCount(response_list) ==
    Len(response_list) - Len(RAG_RelevantIdx(response_list, 0))

\* Mutant of RAG_Raised: the loop goes on after the grading call raised.
RAG_Raised_Retry == "while"

\* raise e in call_batch_model, not caught in self_RAG: the call of self_RAG
\* ends with the exception.
RAG_Raised == "raised"

RAG_Init ==
    /\ rag_docs \in {DocList(n) : n \in 0..MaxDocs}
    /\ rag_process_num \in 0..MaxProcessNum
    /\ rag_earlyend_num \in 0..MaxEarlyEnd
    /\ rag_max_view_num \in 0..MaxViewNum
    /\ rag_count = 0
    /\ rag_irre_count = 0
    /\ rag_results = <<>>
    /\ rag_pc = "while"
    /\ rag_docs_arg = rag_docs
    /\ rag_picked = <<>>
    /\ rag_calls = <<>>

RAG_Idle ==
    /\ rag_docs = <<>>
    /\ rag_process_num = 0
    /\ rag_earlyend_num = 0
    /\ rag_max_view_num = 0
    /\ rag_count = 0
    /\ rag_irre_count = 0
    /\ rag_results = <<>>
    /\ rag_pc = "idle"
    /\ rag_docs_arg = <<>>
    /\ rag_picked = <<>>
    /\ rag_calls = <<>>

\* The indices in docs of the prompts of the batch that starts at count.
RAG_BatchIdx(count) == [k \in 1..RAG_BatchSize(count) |-> count + k - 1]

\* What model.batch may return for the batch that starts at count: one
\* response per prompt.
RAG_ResponseLists(count) == [1..RAG_BatchSize(count) -> Responses]

\* An iteration of the while loop starts: the prompts are built and
\* model.batch answers response_list.
RAG_Graded(response_list) ==
    /\ rag_pc = "while"
    /\ RAG_WhileCond(rag_count)
    /\ response_list \in RAG_ResponseLists(rag_count)

\* The responses joined are empty: call_batch_model raises
\* Exception("LLM response is empty.") and self_RAG does not catch it.
RAG_BatchEmpty ==
    /\ \E response_list \in RAG_ResponseLists(rag_count) :
          /\ RAG_Graded(response_list)
          /\ CallBatchEmpty(response_list)
          /\ rag_calls' = Append(rag_calls,
                [idx |-> RAG_BatchIdx(rag_count), responses |-> response_list,
                 returned |-> FALSE])
    /\ rag_pc' = RAG_Raised
    /\ UNCHANGED <<rag_docs, rag_process_num, rag_earlyend_num, rag_max_view_num,
                   rag_count, rag_irre_count, rag_results, rag_docs_arg, rag_picked>>
    /\ UNCHANGED <<tokenizer, gtVars, hVars, craVars, dsVars>>

\* The responses are graded: the relevant documents are appended to results
\* and the others counted in irre_count.
RAG_Grade(response_list) ==
    LET rel == RAG_RelevantIdx(response_list, 0) IN
    /\ RAG_Graded(response_list)
    /\ ~CallBatchEmpty(response_list)
    /\ rag_calls' = Append(rag_calls,
          [idx |-> RAG_BatchIdx(rag_count), responses |-> response_list,
           returned |-> TRUE])
    /\ rag_results' = rag_results \o
          [k \in 1..Len(rel) |-> At(rag_docs, rag_count + rel[k])]
    /\ rag_picked' = rag_picked \o [k \in 1..Len(rel) |-> rag_count + rel[k]]
    /\ rag_irre_count' = RAG_IrreCount(response_list)

\* A batch is graded and irre_count >= earlyend_num: break, return results.
RAG_BatchEarlyEnd ==
    /\ \E response_list \in RAG_ResponseLists(rag_count) :
          /\ RAG_Grade(response_list)
          /\ RAG_EarlyEnd(rag_irre_count')
    /\ rag_pc' = "done"
    /\ UNCHANGED <<rag_docs, rag_process_num, rag_earlyend_num, rag_max_view_num,
                   rag_count, rag_docs_arg>>
    /\ UNCHANGED <<tokenizer, gtVars, hVars, craVars, dsVars>>

\* A batch is graded and irre_count < earlyend_num: count += process_num.
RAG_BatchContinue ==
    /\ \E response_list \in RAG_ResponseLists(rag_count) :
          /\ RAG_Grade(response_list)
          /\ ~RAG_EarlyEnd(rag_irre_count')
    /\ rag_count' = RAG_NextCount(rag_count)
    /\ rag_pc' = "while"
    /\ UNCHANGED <<rag_docs, rag_process_num, rag_earlyend_num, rag_max_view_num,
                   rag_docs_arg>>
    /\ UNCHANGED <<tokenizer, gtVars, hVars, craVars, dsVars>>

\* An iteration of the while loop in which model.batch raises:
\* call_batch_model logs and raises it again, self_RAG does not catch it.
RAG_BatchRaises ==
    /\ rag_pc = "while"
    /\ RAG_WhileCond(rag_count)
    /\ rag_calls' = Append(rag_calls,
          [idx |-> RAG_BatchIdx(rag_count), responses |-> <<>>, returned |-> FALSE])
    /\ rag_pc' = RAG_Raised
    /\ UNCHANGED <<rag_docs, rag_process_num, rag_earlyend_num, rag_max_view_num,
                   rag_count, rag_irre_count, rag_results, rag_docs_arg, rag_picked>>
    /\ UNCHANGED <<tokenizer, gtVars, hVars, craVars, dsVars>>

\* The while condition is false: return results.
RAG_Return ==
    /\ rag_pc = "while"
    /\ ~RAG_WhileCond(rag_count)
    /\ rag_pc' = "done"
    /\ UNCHANGED <<rag_docs, rag_process_num, rag_earlyend_num, rag_max_view_num,
                   rag_count, rag_irre_count, rag_results, rag_docs_arg, rag_picked,
                   rag_calls>>
    /\ UNCHANGED <<tokenizer, gtVars, hVars, craVars, dsVars>>

(***************************************************************************)
(* check_relevant_answer(model_obj, batch_responses, question,             *)
(* prompt_format_type).  An answer is modelled by its place in the list.   *)
(***************************************************************************)
AnswerList(n) == [k \in 1..n |-> [answer |-> k]]

\* Mutant of CRA_Prompts: a prompt is built for the first answer only.
CRA_Prompts_FirstOnly(batch_responses) ==
    [k \in 1..Min(1, Len(batch_responses)) |-> k - 1]

\* for idx in range(len(batch_responses)): txts.append(...).  The prompts
\* passed to the grader, each named by the index of its answer.
CRA_Prompts(batch_responses) == [k \in 1..Len(batch_responses) |-> k - 1]

\* 'yes' in response.lower()
CRA_IsRelevant(response) == Contains(Lower(response), <<"y", "e", "s">>)

\* for idx, response in enumerate(response_list): the indices idx, in order,
\* whose response is graded relevant.
RECURSIVE CRA_RelevantIdx(_, _)
CRA_RelevantIdx(responses, idx) ==
    IF idx >= Len(responses) THEN <<>>
    ELSE (IF CRA_IsRelevant(At(responses, idx)) THEN <<idx>> ELSE <<>>)
            \o CRA_RelevantIdx(responses, idx + 1)

CRA_Init ==
    /\ cra_batch_responses \in {AnswerList(n) : n \in 0..MaxAnswers}
    /\ cra_results = <<>>
    /\ cra_pc = "call"
    /\ cra_picked = <<>>
    /\ cra_calls = <<>>

CRA_Idle ==
    /\ cra_batch_responses = <<>>
    /\ cra_results = <<>>
    /\ cra_pc = "idle"
    /\ cra_picked = <<>>
    /\ cra_calls = <<>>

\* What model.batch may return: one response per prompt.
CRA_ResponseLists ==
    [1..Len(CRA_Prompts(cra_batch_responses)) -> Responses]

\* The one call of call_batch_model returns: the answers whose response is
\* relevant are appended to results, which is returned.
CRA_Grade ==
    /\ cra_pc = "call"
    /\ \E response_list \in CRA_ResponseLists :
          LET rel == CRA_RelevantIdx(response_list, 0) IN
          /\ ~CallBatchEmpty(response_list)
          /\ cra_calls' = Append(cra_calls,
                [idx |-> CRA_Prompts(cra_batch_responses),
                 responses |-> response_list, returned |-> TRUE])
          /\ cra_results' =
                [k \in 1..Len(rel) |-> At(cra_batch_responses, rel[k])]
          /\ cra_picked' = rel
    /\ cra_pc' = "done"
    /\ UNCHANGED cra_batch_responses
    /\ UNCHANGED <<tokenizer, gtVars, hVars, ragVars, dsVars>>

\* The responses joined are empty (also when there is no prompt at all):
\* call_batch_model raises Exception("LLM response is empty.").
CRA_BatchEmpty ==
    /\ cra_pc = "call"
    /\ \E response_list \in CRA_ResponseLists :
          /\ CallBatchEmpty(response_list)
          /\ cra_calls' = Append(cra_calls,
                [idx |-> CRA_Prompts(cra_batch_responses),
                 responses |-> response_list, returned |-> FALSE])
    /\ cra_pc' = "raised"
    /\ UNCHANGED <<cra_batch_responses, cra_results, cra_picked>>
    /\ UNCHANGED <<tokenizer, gtVars, hVars, ragVars, dsVars>>

\* model.batch raises: call_batch_model raises it again.
CRA_BatchRaises ==
    /\ cra_pc = "call"
    /\ cra_calls' = Append(cra_calls,
          [idx |-> CRA_Prompts(cra_batch_responses), responses |-> <<>>,
           returned |-> FALSE])
    /\ cra_pc' = "raised"
    /\ UNCHANGED <<cra_batch_responses, cra_results, cra_picked>>
    /\ UNCHANGED <<tokenizer, gtVars, hVars, ragVars, dsVars>>

(***************************************************************************)
(* routers/datasets.py: the dataset configs, one JSON file per dataset in  *)
(* DATASET_CONFIG_PATH.  A JSON list that the code builds with list(set()) *)
(* has no duplicates and no order the code fixes: it is kept as the set of *)
(* its elements.                                                           *)
(***************************************************************************)
DS_Owners == {"alice", "bob"}
DS_Names == {"A", "B"}
DS_Users == {"bob", "carol"}
DS_Descriptions == {"d1"}

\* What doc_path.glob('*') finds for a new dataset, with the MD5 of each file.
DS_FileLists == {<< [filename |-> "f1.txt", MD5 |-> "m1"] >>}

\* What apu.get_lastupdate_of_dataset answers.
DS_Times == {"t1"}

\* What stands for the content of a file <uid>.json that does not exist.
DS_None == [exists |-> FALSE]

\* apu.generate_hash(owner, dataset_name): one uid for each owner and name.
generate_hash(owner, dataset_name) == <<owner, dataset_name>>

\* data_path.exists()
DS_Exists(store, uid) == uid \in DOMAIN store

\* with open(path, 'w') as f: json.dump(data, f): <uid>.json holds data.
DS_Dump(store, uid, data) ==
    [u \in (DOMAIN store) \cup {uid} |-> IF u = uid THEN data ELSE store[u]]

\* set(users), for a list users.
ToSet(users) == {users[k] : k \in 1..Len(users)}

\* The request lists of users: none, one, two, and one user twice.
DS_UserLists ==
    {<<>>, <<"bob">>, <<"carol">>, <<"bob", "carol">>, <<"carol", "carol">>}

\* ds_edit after a request that is not an update_dataset.
DS_NoEdit == [new_dataset_name |-> "", upload_files |-> <<>>,
              delete_files |-> <<>>, other |-> DS_None]

DS_Init ==
    /\ ds_store = [u \in {} |-> DS_None]
    /\ ds_call = [op |-> "none", owner |-> "", dataset_name |-> "",
                  users |-> <<>>, status |-> ""]
    /\ ds_before = DS_None
    /\ ds_response = {}
    /\ ds_edit = DS_NoEdit

DS_Idle == DS_Init

\* A request was handled: what is kept of it.
DS_Handled(op, owner, dataset_name, users, status) ==
    /\ ds_call' = [op |-> op, owner |-> owner, dataset_name |-> dataset_name,
                   users |-> users, status |-> status]
    /\ ds_before' =
          IF DS_Exists(ds_store, generate_hash(owner, dataset_name))
          THEN ds_store[generate_hash(owner, dataset_name)] ELSE DS_None
    /\ ds_response' = {}
    /\ ds_edit' = DS_NoEdit

\* create_dataset: apu.check_config fails.
DS_CreateConfigFail ==
    /\ \E owner \in DS_Owners, dataset_name \in DS_Names :
          DS_Handled("create_config", owner, dataset_name, <<>>, "fail")
    /\ UNCHANGED ds_store
    /\ UNCHANGED <<tokenizer, gtVars, hVars, ragVars, craVars>>

\* create_dataset: apu.check_dir(own_path) fails.
DS_CreateDirFail ==
    /\ \E owner \in DS_Owners, dataset_name \in DS_Names :
          DS_Handled("create_dir", owner, dataset_name, <<>>, "fail")
    /\ UNCHANGED ds_store
    /\ UNCHANGED <<tokenizer, gtVars, hVars, ragVars, craVars>>

\* create_dataset: the config is built from the files of the document
\* directory and written to <uid>.json.  The number of configs is capped.
DS_Create ==
    /\ \E owner \in DS_Owners, dataset_name \in DS_Names,
          dataset_description \in DS_Descriptions,
          files \in DS_FileLists, last_update \in DS_Times :
          LET uid == generate_hash(owner, dataset_name)
              data == [uid |-> uid, name |-> dataset_name,
                       description |-> dataset_description, owner |-> owner,
                       files |-> files, last_update |-> last_update,
                       has_shared_users |-> FALSE, shared_users |-> {}] IN
          /\ DS_Exists(ds_store, uid)
                \/ Cardinality(DOMAIN ds_store) < MaxDatasets
          /\ ds_store' = DS_Dump(ds_store, uid, data)
          /\ DS_Handled("create", owner, dataset_name, <<>>, "success")
    /\ UNCHANGED <<tokenizer, gtVars, hVars, ragVars, craVars>>

\* share_dataset: apu.check_config fails, before shared_users is looked at.
DS_ShareConfigFail ==
    /\ \E owner \in DS_Owners, dataset_name \in DS_Names :
          DS_Handled("share_config", owner, dataset_name, <<>>, "fail")
    /\ UNCHANGED ds_store
    /\ UNCHANGED <<tokenizer, gtVars, hVars, ragVars, craVars>>

\* share_dataset: there is no <uid>.json.
DS_ShareNotFound ==
    /\ \E owner \in DS_Owners, dataset_name \in DS_Names,
          shared_users \in DS_UserLists :
          /\ ~DS_Exists(ds_store, generate_hash(owner, dataset_name))
          /\ DS_Handled("share", owner, dataset_name, shared_users, "fail")
    /\ UNCHANGED ds_store
    /\ UNCHANGED <<tokenizer, gtVars, hVars, ragVars, craVars>>

\* data['shared_users'] = list(set(shared_users)), whatever the key held.
DS_SharedUsers(data, shared_users) == ToSet(shared_users)

\* share_dataset: the config is read, its 'shared_users' set and the config
\* written back.
DS_Share ==
    /\ \E owner \in DS_Owners, dataset_name \in DS_Names,
          shared_users \in DS_UserLists :
          LET uid == generate_hash(owner, dataset_name) IN
          /\ DS_Exists(ds_store, uid)
          /\ ds_store' = DS_Dump(ds_store, uid,
                [ds_store[uid] EXCEPT
                    !.has_shared_users = TRUE,
                    !.shared_users = DS_SharedUsers(ds_store[uid], shared_users)])
          /\ DS_Handled("share", owner, dataset_name, shared_users, "success")
    /\ UNCHANGED <<tokenizer, gtVars, hVars, ragVars, craVars>>

\* os.remove(data_path): <uid>.json is no more.
DS_Remove(store, uid) == [u \in (DOMAIN store) \ {uid} |-> store[u]]

\* delete_dataset: apu.check_config fails.
DS_DeleteConfigFail ==
    /\ \E owner \in DS_Owners, dataset_name \in DS_Names :
          DS_Handled("delete_config", owner, dataset_name, <<>>, "fail")
    /\ UNCHANGED ds_store
    /\ UNCHANGED <<tokenizer, gtVars, hVars, ragVars, craVars>>

\* delete_dataset: there is no <uid>.json.
DS_DeleteNotFound ==
    /\ \E owner \in DS_Owners, dataset_name \in DS_Names :
          /\ ~DS_Exists(ds_store, generate_hash(owner, dataset_name))
          /\ DS_Handled("delete", owner, dataset_name, <<>>, "fail")
    /\ UNCHANGED ds_store
    /\ UNCHANGED <<tokenizer, gtVars, hVars, ragVars, craVars>>

\* delete_dataset: <uid>.json is removed.
DS_Delete ==
    /\ \E owner \in DS_Owners, dataset_name \in DS_Names :
          LET uid == generate_hash(owner, dataset_name) IN
          /\ DS_Exists(ds_store, uid)
          /\ ds_store' = DS_Remove(ds_store, uid)
          /\ DS_Handled("delete", owner, dataset_name, <<>>, "success")
    /\ UNCHANGED <<tokenizer, gtVars, hVars, ragVars, craVars>>

\* 'shared_users' not in data.keys() or len(data['shared_users']) == 0
DS_NotShared(data) == ~data.has_shared_users \/ data.shared_users = {}

\* Mutant of DS_RemoveUsers: every shared user is removed.
DS_RemoveUsers_All(data, delete_users) == {}

\* vis = set(data['shared_users']); each user of delete_users that is in vis
\* is removed from it.
DS_RemoveUsers(data, delete_users) == data.shared_users \ ToSet(delete_users)

\* delete_share_dataset: apu.check_config fails, before delete_users is
\* looked at.
DS_DeleteShareConfigFail ==
    /\ \E owner \in DS_Owners, dataset_name \in DS_Names :
          DS_Handled("delete_share_config", owner, dataset_name, <<>>, "fail")
    /\ UNCHANGED ds_store
    /\ UNCHANGED <<tokenizer, gtVars, hVars, ragVars, craVars>>

\* delete_share_dataset: there is no <uid>.json.
DS_DeleteShareNotFound ==
    /\ \E owner \in DS_Owners, dataset_name \in DS_Names,
          delete_users \in DS_UserLists :
          /\ ~DS_Exists(ds_store, generate_hash(owner, dataset_name))
          /\ DS_Handled("delete_share_missing", owner, dataset_name,
                        delete_users, "fail")
    /\ UNCHANGED ds_store
    /\ UNCHANGED <<tokenizer, gtVars, hVars, ragVars, craVars>>

\* delete_share_dataset: the dataset is shared with nobody; data is changed
\* in memory only and 'fail' is returned.
DS_DeleteShareNotShared ==
    /\ \E owner \in DS_Owners, dataset_name \in DS_Names,
          delete_users \in DS_UserLists :
          LET uid == generate_hash(owner, dataset_name) IN
          /\ DS_Exists(ds_store, uid)
          /\ DS_NotShared(ds_store[uid])
          /\ DS_Handled("delete_share", owner, dataset_name, delete_users,
                        "fail")
    /\ UNCHANGED ds_store
    /\ UNCHANGED <<tokenizer, gtVars, hVars, ragVars, craVars>>

\* delete_share_dataset: the users are removed and the config written back.
DS_DeleteShare ==
    /\ \E owner \in DS_Owners, dataset_name \in DS_Names,
          delete_users \in DS_UserLists :
          LET uid == generate_hash(owner, dataset_name) IN
          /\ DS_Exists(ds_store, uid)
          /\ ~DS_NotShared(ds_store[uid])
          /\ ds_store' = DS_Dump(ds_store, uid,
                [ds_store[uid] EXCEPT
                    !.shared_users = DS_RemoveUsers(ds_store[uid], delete_users)])
          /\ DS_Handled("delete_share", owner, dataset_name, delete_users,
                        "success")
    /\ UNCHANGED <<tokenizer, gtVars, hVars, ragVars, craVars>>

\* Mutant of DS_CanUse: only the owner's datasets are listed.
DS_CanUse_OwnerOnly(dataset, owner) == dataset.owner = owner

\* dataset['owner'] == owner, or 'shared_users' in dataset.keys() and
\* owner in dataset['shared_users']
DS_CanUse(dataset, owner) ==
    \/ dataset.owner = owner
    \/ dataset.has_shared_users /\ owner \in dataset.shared_users

\* The list get_use_dataset_list builds over the files of p.glob("*"), one
\* entry per config the user can use; glob fixes no order, so the list is
\* kept as the set of its entries.
DS_UseList(store, owner) ==
    {[dataset_name |-> store[u].name, owner |-> store[u].owner] :
        u \in {v \in DOMAIN store : DS_CanUse(store[v], owner)}}

\* The users that ask for their list.
DS_Askers == DS_Owners \cup DS_Users

\* get_use_dataset_list: apu.check_config fails.
DS_GetConfigFail ==
    /\ \E owner \in DS_Askers : DS_Handled("get", owner, "", <<>>, "fail")
    /\ UNCHANGED ds_store
    /\ UNCHANGED <<tokenizer, gtVars, hVars, ragVars, craVars>>

\* get_use_dataset_list: the list is returned.
DS_Get ==
    /\ \E owner \in DS_Askers :
          /\ ds_call' = [op |-> "get", owner |-> owner, dataset_name |-> "",
                         users |-> <<>>, status |-> "success"]
          /\ ds_response' = DS_UseList(ds_store, owner)
    /\ ds_before' = DS_None
    /\ ds_edit' = DS_NoEdit
    /\ UNCHANGED ds_store
    /\ UNCHANGED <<tokenizer, gtVars, hVars, ragVars, craVars>>

\* The upload_files and delete_files lists of the requests.
DS_UploadLists == {<<>>, <<"f1.txt">>, <<"f2.txt">>}
DS_DeleteLists == {<<>>, <<"f1.txt">>}
DS_FileNames == {"f1.txt", "f2.txt"}

\* What get_text_md5 gives for a file that is loaded.
DS_MD5s == {"m1"}

\* The files of the config after update_dataset: the entries of
\* data['files'] whose filename is not in delete_files, then one entry for
\* each file of upload_files that is not in exi_files, the filenames
\* data['files'] had at the start.
DS_NewFiles(data, upload_files, delete_files, md5_of) ==
    LET exi_files == {data.files[k].filename : k \in 1..Len(data.files)}
        kept == SelectSeq(data.files,
                   LAMBDA dic : dic.filename \notin ToSet(delete_files))
        added == SelectSeq(upload_files, LAMBDA file : file \notin exi_files)
    IN kept \o [k \in 1..Len(added) |->
                   [filename |-> added[k], MD5 |-> md5_of[added[k]]]]

\* An update_dataset request was handled: what is kept of it.
DS_Edited(op, owner, dataset_name, new_dataset_name, upload_files, delete_files, status) ==
    /\ ds_call' = [op |-> op, owner |-> owner, dataset_name |-> dataset_name,
                   users |-> <<>>, status |-> status]
    /\ ds_before' =
          IF DS_Exists(ds_store, generate_hash(owner, dataset_name))
          THEN ds_store[generate_hash(owner, dataset_name)] ELSE DS_None
    /\ ds_response' = {}
    /\ ds_edit' =
          [new_dataset_name |-> new_dataset_name,
           upload_files |-> upload_files, delete_files |-> delete_files,
           other |-> IF DS_Exists(ds_store, generate_hash(owner, new_dataset_name))
                     THEN ds_store[generate_hash(owner, new_dataset_name)]
                     ELSE DS_None]

\* update_dataset: apu.check_config fails.
DS_UpdateConfigFail ==
    /\ \E owner \in DS_Owners, dataset_name \in DS_Names :
          DS_Edited("update_config", owner, dataset_name, dataset_name,
                    <<>>, <<>>, "fail")
    /\ UNCHANGED ds_store
    /\ UNCHANGED <<tokenizer, gtVars, hVars, ragVars, craVars>>

\* update_dataset: there is no <uid>.json; open(data_path, 'r') raises
\* FileNotFoundError, which nothing catches.
DS_UpdateNotFound ==
    /\ \E owner \in DS_Owners, dataset_name \in DS_Names :
          /\ ~DS_Exists(ds_store, generate_hash(owner, dataset_name))
          /\ DS_Edited("update", owner, dataset_name, dataset_name,
                       <<>>, <<>>, "raised")
    /\ UNCHANGED ds_store
    /\ UNCHANGED <<tokenizer, gtVars, hVars, ragVars, craVars>>

\* update_dataset: the config is read and <uid>.json removed, then
\* apu.check_dir(own_path) fails and 'fail' is returned.
DS_UpdateDirFail ==
    /\ \E owner \in DS_Owners, dataset_name \in DS_Names,
          new_dataset_name \in DS_Names :
          LET uid == generate_hash(owner, dataset_name) IN
          /\ DS_Exists(ds_store, uid)
          /\ ds_store' = DS_Remove(ds_store, uid)
          /\ DS_Edited("update", owner, dataset_name, new_dataset_name,
                       <<>>, <<>>, "fail")
    /\ UNCHANGED <<tokenizer, gtVars, hVars, ragVars, craVars>>

\* update_dataset: the config is read, <uid>.json removed, the name and uid
\* changed when a new name is given, the files, description and
\* last_update set, and the config written to the file of the (new) uid.
DS_Update ==
    /\ \E owner \in DS_Owners, dataset_name \in DS_Names,
          new_dataset_name \in DS_Names,
          dataset_description \in DS_Descriptions,
          upload_files \in DS_UploadLists, delete_files \in DS_DeleteLists,
          md5_of \in [DS_FileNames -> DS_MD5s], last_update \in DS_Times :
          LET old_uid == generate_hash(owner, dataset_name)
              uid == IF dataset_name # new_dataset_name
                     THEN generate_hash(owner, new_dataset_name) ELSE old_uid
              data == ds_store[old_uid]
              renamed == IF dataset_name # new_dataset_name
                         THEN [data EXCEPT !.name = new_dataset_name,
                                           !.uid = uid]
                         ELSE data
          IN
          /\ DS_Exists(ds_store, old_uid)
          /\ ds_store' = DS_Dump(DS_Remove(ds_store, old_uid), uid,
                [renamed EXCEPT
                    !.files = DS_NewFiles(data, upload_files, delete_files,
                                          md5_of),
                    !.description = dataset_description,
                    !.last_update = last_update])
          /\ DS_Edited("update", owner, dataset_name, new_dataset_name,
                       upload_files, delete_files, "success")
    /\ UNCHANGED <<tokenizer, gtVars, hVars, ragVars, craVars>>

(***************************************************************************)
(* The specifications: one per function.                                   *)
(***************************************************************************)
InitGetText ==
    /\ tokenizer = <<>>
    /\ GT_Init
    /\ H_Idle
    /\ RAG_Idle
    /\ CRA_Idle
    /\ DS_Idle

NextGetText ==
    \/ GT_Entry
    \/ GT_EntryIndexError
    \/ GT_LoopBody
    \/ GT_Return

SpecGetText == InitGetText /\ [][NextGetText]_vars

\* _get_text under the caller that packs the whole list.  The caller makes
\* no call when the index is len(texts) already; each step of the caller
\* and of _get_text is taken when it can be.
InitGetTextLoop ==
    /\ InitGetText
    /\ gt_start < Len(gt_texts)

NextGetTextLoop ==
    \/ GT_Entry
    \/ GT_LoopBody
    \/ GT_Return
    \/ GT_Again

SpecGetTextLoop ==
    InitGetTextLoop /\ [][NextGetTextLoop]_vars /\ WF_vars(NextGetTextLoop)

InitHistory ==
    /\ tokenizer = <<>>
    /\ GT_Idle
    /\ H_Init
    /\ RAG_Idle
    /\ CRA_Idle
    /\ DS_Idle

NextHistory ==
    \/ H_ForNext
    \/ H_ForExhausted
    \/ H_BreakPairs
    \/ H_Skip
    \/ H_BreakAssistant
    \/ H_BreakUser
    \/ H_TakePair
    \/ H_ReturnEmpty
    \/ H_Return

SpecHistory == InitHistory /\ [][NextHistory]_vars

InitRAG ==
    /\ tokenizer = <<>>
    /\ GT_Idle
    /\ H_Idle
    /\ RAG_Init
    /\ CRA_Idle
    /\ DS_Idle

NextRAG ==
    \/ RAG_Return
    \/ RAG_BatchRaises
    \/ RAG_BatchContinue
    \/ RAG_BatchEarlyEnd
    \/ RAG_BatchEmpty

SpecRAG == InitRAG /\ [][NextRAG]_vars

\* self_RAG is one sequential function: the interpreter runs its next
\* statement whenever there is one.
SpecRAGLive == SpecRAG /\ WF_vars(NextRAG)

\* The two relevance filters, called for lists of the same length: the
\* documents of self_RAG and the answers of check_relevant_answer.  A batch
\* size or a view ceiling above the length of the list acts as one equal to
\* it, so both are taken up to MaxAnswers.
InitFilters ==
    /\ tokenizer = <<>>
    /\ GT_Idle
    /\ H_Idle
    /\ RAG_Init
    /\ CRA_Init
    /\ Len(rag_docs) = Len(cra_batch_responses)
    /\ rag_process_num <= MaxAnswers
    /\ rag_max_view_num <= MaxAnswers
    /\ DS_Idle

NextFilters ==
    \/ RAG_BatchContinue
    \/ RAG_BatchEarlyEnd
    \/ RAG_BatchEmpty
    \/ RAG_BatchRaises
    \/ RAG_Return
    \/ CRA_Grade
    \/ CRA_BatchEmpty
    \/ CRA_BatchRaises

SpecFilters == InitFilters /\ [][NextFilters]_vars

\* The requests that create, share, delete and list datasets.
InitDatasets ==
    /\ tokenizer = <<>>
    /\ GT_Idle
    /\ H_Idle
    /\ RAG_Idle
    /\ CRA_Idle
    /\ DS_Init

NextDatasets ==
    \/ DS_CreateConfigFail
    \/ DS_CreateDirFail
    \/ DS_Create
    \/ DS_ShareConfigFail
    \/ DS_ShareNotFound
    \/ DS_Share
    \/ DS_DeleteShareConfigFail
    \/ DS_DeleteShareNotFound
    \/ DS_DeleteShareNotShared
    \/ DS_DeleteShare
    \/ DS_DeleteConfigFail
    \/ DS_DeleteNotFound
    \/ DS_Delete
    \/ DS_GetConfigFail
    \/ DS_Get

SpecDatasets == InitDatasets /\ [][NextDatasets]_vars

\* The requests that create and update datasets.
InitUpdate == InitDatasets

NextUpdate ==
    \/ DS_CreateConfigFail
    \/ DS_CreateDirFail
    \/ DS_Create
    \/ DS_UpdateConfigFail
    \/ DS_UpdateNotFound
    \/ DS_UpdateDirFail
    \/ DS_Update

SpecUpdate == InitUpdate /\ [][NextUpdate]_vars


(***************************************************************************)
(* Claims about _get_text                                                  *)
(***************************************************************************)
GT_SeedTokens == tokenizer[gt_previous_summary]

\* texts[a], ..., texts[b-1] (0-based), each followed by one newline.
RECURSIVE GT_Joined(_, _, _)
GT_Joined(ts, a, b) ==
    IF a >= b THEN <<>> ELSE GT_Joined(ts, a, b - 1) \o At(ts, b - 1) \o <<NL>>

\* C1 as stated: for every chunk list, start index, seed text and budget
\* (a positive one, as the precondition asks) the token count _get_text
\* returns is strictly below max_input_tokens, also when the seed text's own
\* count is at or above the budget.
C1_Original ==
    (gt_pc = "done" /\ gt_max_input_tokens > 0)
        => gt_cur_count < gt_max_input_tokens

\* C1 amended: the token count _get_text returns is strictly below
\* max_input_tokens whenever the seed text's count is below it; when the
\* seed's count is at or above the budget no chunk is added and the count
\* returned is the seed's count.
C1_BudgetWhenSeedFits ==
    gt_pc = "done" =>
        /\ GT_SeedTokens < gt_max_input_tokens
              => gt_cur_count < gt_max_input_tokens
        /\ GT_SeedTokens >= gt_max_input_tokens
              => /\ gt_cur_count = GT_SeedTokens
                 /\ gt_i = gt_start
                 /\ gt_cur_text = <<>>

\* A return with two chunks packed after a non-empty seed count, stopped by
\* the budget and not by the end of the list.
C1_Witness ==
    /\ gt_pc = "done"
    /\ GT_SeedTokens > 0
    /\ gt_i = gt_start + 2
    /\ gt_i < Len(gt_texts)
    /\ gt_cur_count = gt_max_input_tokens - 1

\* C6: the text _get_text returns is exactly texts[start], ...,
\* texts[next_index - 1], each followed by one newline, and is empty when
\* next_index = start: no chunk is included in part.
C6_WholeChunks ==
    gt_pc = "done" =>
        /\ gt_start <= gt_i
        /\ gt_i <= Len(gt_texts)
        /\ gt_cur_text = GT_Joined(gt_texts, gt_start, gt_i)

\* A return with two different chunks packed, starting after the first chunk.
C6_Witness ==
    /\ gt_pc = "done"
    /\ gt_start = 1
    /\ gt_i = 3
    /\ At(gt_texts, 1) # At(gt_texts, 2)
    /\ gt_cur_text # <<>>

\* C7: when the first candidate chunk texts[start] alone has a token count
\* of at least max_input_tokens, _get_text adds no chunk: the text is empty
\* and the next index is the start index.
C7_NoProgress ==
    (/\ gt_pc = "done"
     /\ tokenizer[At(gt_texts, gt_start)] >= gt_max_input_tokens)
        => /\ gt_i = gt_start
           /\ gt_cur_text = <<>>

\* A return where the seed costs nothing and fits, and the first chunk
\* alone reaches a positive budget.
C7_Witness ==
    /\ gt_pc = "done"
    /\ GT_SeedTokens = 0
    /\ gt_max_input_tokens > 0
    /\ gt_start < Len(gt_texts)
    /\ tokenizer[At(gt_texts, gt_start)] >= gt_max_input_tokens
    /\ gt_i = gt_start

\* C8 as stated: with no chunk at the start index (start = len(texts), an
\* empty list included) _get_text returns the no-op result (seed count,
\* empty text, index unchanged) and does not raise.
C8_NoChunkIsNoOp ==
    (gt_start = Len(gt_texts) /\ gt_pc # "entry")
        => /\ gt_pc # "raised"
           /\ gt_pc = "done" => /\ gt_cur_count = GT_SeedTokens
                                /\ gt_cur_text = <<>>
                                /\ gt_i = gt_start

\* C24: _get_text is greedy-maximal: on return the next index is
\* len(texts), or the count returned plus the count of texts[next_index] is
\* at least max_input_tokens; the chunks taken are those from the start
\* index up to the next index, none skipped.
C24_GreedyMaximal ==
    gt_pc = "done" =>
        /\ \/ gt_i = Len(gt_texts)
           \/ gt_cur_count + tokenizer[At(gt_texts, gt_i)] >= gt_max_input_tokens
        /\ gt_start <= gt_i
        /\ gt_cur_text = GT_Joined(gt_texts, gt_start, gt_i)

\* A return after a chunk was taken, stopped by a next chunk that would
\* bring the count to the budget exactly.
C24_Witness ==
    /\ gt_pc = "done"
    /\ gt_start < gt_i
    /\ gt_i < Len(gt_texts)
    /\ gt_cur_count + tokenizer[At(gt_texts, gt_i)] = gt_max_input_tokens

\* A call that returned without taking a chunk, with chunks left.
GT_Stuck == gt_pc = "done" /\ gt_i = gt_start /\ gt_i < Len(gt_texts)

\* The caller's loop has ended: the index returned is len(texts).
GT_Finished == gt_pc = "done" /\ gt_i = Len(gt_texts)

\* C25: for the caller that calls _get_text again with the index returned
\* until it is len(texts).  A call makes no progress exactly when the seed's
\* count plus the count of its first chunk is at least max_input_tokens,
\* and after such a call the caller never ends; the caller ends only when
\* every chunk from the first index on has seed count plus own count below
\* max_input_tokens; and every run ends or comes to a call without
\* progress, so the caller ends when every chunk is below the budget.
C25_CallerLoop ==
    /\ [](GT_Stuck =>
            GT_SeedTokens + tokenizer[At(gt_texts, gt_i)] >= gt_max_input_tokens)
    /\ [](GT_Finished =>
            \A k \in gt_first..(Len(gt_texts) - 1) :
               GT_SeedTokens + tokenizer[At(gt_texts, k)] < gt_max_input_tokens)
    /\ [](GT_Stuck => [](~GT_Finished))
    /\ <>(GT_Finished \/ GT_Stuck)

\* The second call of the caller returns without progress after the first
\* call took a chunk, with a positive budget that the seed alone is below.
C25_Witness ==
    /\ GT_Stuck
    /\ gt_first < gt_start
    /\ gt_max_input_tokens > 0
    /\ GT_SeedTokens < gt_max_input_tokens

\* The counts of texts[a], ..., texts[b-1] (0-based), added up.
RECURSIVE GT_SumTokens(_, _, _)
GT_SumTokens(ts, a, b) ==
    IF a >= b THEN 0 ELSE GT_SumTokens(ts, a, b - 1) + tokenizer[At(ts, b - 1)]

\* C30: the count _get_text holds and returns is the count of the seed
\* text plus the counts of the chunks texts[start], ..., texts[i - 1] that
\* are in the text; the count of a chunk that was counted but not appended
\* is not in it.
C30_CountIsSum ==
    gt_pc \in {"while", "done"} =>
        gt_cur_count = GT_SeedTokens + GT_SumTokens(gt_texts, gt_start, gt_i)

\* A return with a seed count, two chunks of different counts taken, and a
\* third chunk counted but left out.
C30_Witness ==
    /\ gt_pc = "done"
    /\ GT_SeedTokens > 0
    /\ gt_i = gt_start + 2
    /\ tokenizer[At(gt_texts, gt_start)] # tokenizer[At(gt_texts, gt_start + 1)]
    /\ gt_i < Len(gt_texts)
    /\ gt_words_len > 0
    /\ gt_words_len = tokenizer[At(gt_texts, gt_i)]

(***************************************************************************)
(* Claims about retri_history_messages                                     *)
(***************************************************************************)
\* The number of places where pattern occurs in text.
Occurrences(pattern, text) ==
    Cardinality({k \in 1..(Len(text) - Len(pattern) + 1) :
                    SubSeq(text, k, k + Len(pattern) - 1) = pattern})

\* The user lines, hence the complete pairs, in the text returned.
H_PairsInResult == Occurrences(RoleChars(role1) \o <<":", " ">>, h_result.text)

\* The text of the line ret holds for the message at index k.
H_LineOf(k) ==
    IF At(h_messages, k).role = role2 THEN texta(At(h_messages, k))
    ELSE textq(At(h_messages, k))

\* C3 as stated: when the entries at i and i-1 are not (role2, role1), the
\* walk of retri_history_messages skips by one position: the next pair whose
\* roles are tested is (i-1, i-2).
C3_SkipByOne ==
    \A k \in 1..(Len(h_examined) - 1) :
        H_RolesMismatch(h_messages, h_examined[k])
            => h_examined[k + 1] = h_examined[k] - 1

\* C9 as stated: the lines of the text retri_history_messages returns are
\* oldest-first: of any two lines, the earlier one comes from the message at
\* the smaller transcript index.
C9_OldestFirst ==
    (h_pc = "done" /\ h_result.text # <<>>) =>
        /\ h_result.text = splitter \o Join(h_ret) \o splitter
        /\ Len(h_src) = Len(h_ret)
        /\ \A k \in 1..Len(h_ret) : h_ret[k] = H_LineOf(h_src[k])
        /\ \A j, k \in 1..Len(h_src) : j < k => h_src[j] < h_src[k]

\* C10: the number of complete user/assistant pairs in the result of
\* retri_history_messages is at most pairs, and with pairs <= 0 the result
\* is the empty one, ("", 0).
C10_PairBound ==
    h_pc = "done" =>
        IF h_pairs <= 0
        THEN h_result = [text |-> <<>>, len |-> 0]
        ELSE H_PairsInResult <= h_pairs

\* A transcript of two well-formed pairs with pairs = 1: the newest pair is
\* returned and the second iteration stops on the pair limit.
C10_Witness ==
    /\ h_pc = "done"
    /\ h_pairs = 1
    /\ Len(h_messages) = 4
    /\ \A k \in 0..3 : At(h_messages, k).role = (IF k % 2 = 0 THEN role1 ELSE role2)
    /\ h_examined = <<3>>
    /\ h_i = 1
    /\ H_PairsInResult = 1

\* The token counts of the lines of ret, added up.
RECURSIVE H_RetTokens(_)
H_RetTokens(ret) ==
    IF ret = <<>> THEN 0 ELSE tokenizer[Head(ret)] + H_RetTokens(Tail(ret))

\* ret ends a pair in the middle: it holds an assistant line without its
\* user line.  H_DanglingAt is the place of that line in ret (ret is
\* reversed when a non-empty result is returned).
H_Dangling == Len(h_ret) % 2 = 1
H_DanglingAt == IF h_pc = "done" /\ h_result.text # <<>> THEN 1 ELSE Len(h_ret)

\* The two budget tests are separate: every line kept fitted when it was
\* added, and a pair whose assistant line fits but whose user line does not
\* adds only its assistant line, after which the walk stops.
H_SeparateTests ==
    /\ h_cur_len = H_RetTokens(h_ret)
    /\ h_ret # <<>> => h_cur_len <= h_max_input_tokens
    /\ H_Dangling =>
          /\ h_pc \in {"after", "done"}
          /\ h_ret[H_DanglingAt] = texta(At(h_messages, h_i))
          /\ h_src[H_DanglingAt] = h_i
          /\ h_cur_len + tokenizer[textq(At(h_messages, h_i - 1))]
                > h_max_input_tokens

\* C11 as stated: retri_history_messages stops before any line that would
\* push the running total above max_input_tokens, testing the assistant
\* line and the user line separately; the token count returned is always
\* <= max_input_tokens, and a pair whose assistant line fits but whose user
\* line does not contributes only its assistant line.
C11_Original ==
    /\ H_SeparateTests
    /\ h_pc = "done" => h_result.len <= h_max_input_tokens

\* C11 amended: as stated, but the token count returned is
\* <= max_input_tokens only for a budget >= 0; with a negative budget no
\* line fits and the result is ("", 0), whose count 0 is above the budget.
C11_BudgetKept ==
    /\ H_SeparateTests
    /\ h_pc = "done" =>
          IF h_max_input_tokens >= 0
          THEN h_result.len <= h_max_input_tokens
          ELSE h_result = [text |-> <<>>, len |-> 0]

\* A return of one complete pair followed by the assistant line of an older
\* pair whose user line did not fit, the count returned filling the budget.
C11_Witness ==
    /\ h_pc = "done"
    /\ h_count = 1
    /\ Len(h_ret) = 3
    /\ h_src = <<1, 2, 3>>
    /\ tokenizer[h_ret[1]] > 0
    /\ h_result.len = h_max_input_tokens

\* C12: retri_history_messages returns exactly ("", 0) whenever no complete
\* pair was collected, also when the assistant line of the newest pair was
\* already appended and counted before its user line overflowed the budget.
C12_EmptyWithoutPair ==
    (/\ h_pc = "done"
     /\ \A k \in 1..Len(h_ret) :
           SubSeq(h_ret[k], 1, Len(RoleChars(role1))) # RoleChars(role1))
        => h_result = [text |-> <<>>, len |-> 0]

\* A return of ("", 0) although the newest assistant line was appended to
\* ret and its tokens added to cur_len.
C12_Witness ==
    /\ h_pc = "done"
    /\ Len(h_ret) = 1
    /\ h_src = <<Len(h_messages) - 1>>
    /\ h_cur_len > 0
    /\ h_result = [text |-> <<>>, len |-> 0]

\* C13: for any transcript whose entries have a role and a content, of any
\* role sequence and any length (empty and odd ones too),
\* retri_history_messages never raises and returns: each index it reads is
\* one Python accepts, and every state but the returned one has a next step;
\* entries whose roles do not match are only skipped.
C13_NeverRaises ==
    /\ h_pc = "body" =>
          /\ ~IndexError(h_messages, h_i)
          /\ ~IndexError(h_messages, h_i - 1)
    /\ h_pc # "done" => ENABLED NextHistory
    /\ h_pc = "done" => h_result.len >= 0

\* A return for a transcript of odd length, all of one role: both pairs
\* tested were skipped, the second being (0, -1).
C13_Witness ==
    /\ h_pc = "done"
    /\ Len(h_messages) = 3
    /\ \A k \in 0..2 : At(h_messages, k).role = role2
    /\ h_examined = <<2, 0>>
    /\ h_ret = <<>>

\* C26 as stated: every pair collected by retri_history_messages is made of
\* two adjacent transcript entries: the assistant line comes from an index
\* i >= 1 and the user line from index i - 1, so the first message of the
\* transcript is never paired with the last one.
C26_AdjacentPairs ==
    h_pc \in {"for", "body", "after"} =>
        \A k \in 1..(Len(h_src) - 1) :
           k % 2 = 1 =>
              /\ h_src[k] >= 1
              /\ h_src[k + 1] = h_src[k] - 1
              /\ ~(h_src[k] = 0 /\ h_src[k + 1] = Len(h_messages) - 1)

(***************************************************************************)
(* Claims about self_RAG                                                   *)
(***************************************************************************)
\* The number of candidates passed to the grader in the first k calls.
RECURSIVE RAG_Submitted(_)
RAG_Submitted(k) ==
    IF k = 0 THEN 0 ELSE RAG_Submitted(k - 1) + Len(rag_calls[k].idx)

\* The indices in docs, in order, graded relevant in the calls that returned
\* among the first k.
RECURSIVE RAG_GradedRelevant(_)
RAG_GradedRelevant(k) ==
    IF k = 0 THEN <<>>
    ELSE RAG_GradedRelevant(k - 1) \o
         (IF rag_calls[k].returned
          THEN SelectSeq(rag_calls[k].idx,
                  LAMBDA d : Contains(Lower(rag_calls[k].responses[d - rag_calls[k].idx[1] + 1]),
                                      <<"y", "e", "s">>))
          ELSE <<>>)

\* The number of responses of call k that are not graded relevant.
RAG_IrrelevantIn(k) ==
    Cardinality({j \in 1..Len(rag_calls[k].responses) :
                    ~Contains(Lower(rag_calls[k].responses[j]), <<"y", "e", "s">>)})

\* C2 as stated: self_RAG never passes more than max_view_num candidates to
\* the grader in total, whatever process_num is.
C2_ViewCeiling ==
    RAG_Submitted(Len(rag_calls)) <= rag_max_view_num

\* C4: once a batch of self_RAG has an irrelevant count >= earlyend_num the
\* loop has ended: that batch is the last one passed to the grader, self_RAG
\* has returned, and the result is exactly the candidates graded relevant up
\* to and including that batch.
C4_EarlyStop ==
    \A k \in 1..Len(rag_calls) :
        (rag_calls[k].returned /\ RAG_IrrelevantIn(k) >= rag_earlyend_num)
            => /\ k = Len(rag_calls)
               /\ rag_pc = "done"
               /\ rag_picked = RAG_GradedRelevant(k)
               /\ rag_results = [j \in 1..Len(rag_picked) |-> At(rag_docs, rag_picked[j])]

\* The second batch reaches earlyend_num while a document within the view
\* limit is left, and the result holds documents of both batches.
C4_Witness ==
    /\ rag_pc = "done"
    /\ Len(rag_calls) = 2
    /\ rag_earlyend_num > 0
    /\ RAG_IrrelevantIn(2) >= rag_earlyend_num
    /\ RAG_NextCount(rag_count) < Len(rag_docs)
    /\ RAG_NextCount(rag_count) < rag_max_view_num
    /\ Len(rag_results) = 3
    /\ rag_picked[1] < rag_count
    /\ rag_picked[3] >= rag_count

\* C5: the list self_RAG builds is a subsequence of docs: each item is the
\* element of docs at an index that was graded relevant, the indices are
\* strictly increasing (original order, no duplicates), and docs is as the
\* caller passed it.
C5_Subsequence ==
    /\ rag_docs = rag_docs_arg
    /\ Len(rag_results) = Len(rag_picked)
    /\ \A j \in 1..Len(rag_picked) :
          /\ rag_picked[j] \in 0..(Len(rag_docs) - 1)
          /\ rag_results[j] = At(rag_docs, rag_picked[j])
          /\ \E k \in 1..Len(rag_calls) : \E d \in 1..Len(rag_calls[k].idx) :
                /\ rag_calls[k].returned
                /\ rag_calls[k].idx[d] = rag_picked[j]
                /\ Contains(Lower(rag_calls[k].responses[d]), <<"y", "e", "s">>)
    /\ \A i, j \in 1..Len(rag_picked) : i < j => rag_picked[i] < rag_picked[j]
    /\ \A i, j \in 1..Len(rag_results) : i < j => rag_results[i] # rag_results[j]

\* A return after two batches with a document dropped between two kept ones.
C5_Witness ==
    /\ rag_pc = "done"
    /\ Len(rag_calls) = 2
    /\ rag_picked = <<0, 2>>
    /\ rag_results = <<[id |-> 1], [id |-> 3]>>
    /\ Len(rag_docs) = 4
    /\ rag_irre_count < rag_earlyend_num

\* The last grading call returned and ended the loop by the break.
RAG_StoppedEarly ==
    /\ rag_pc = "done"
    /\ rag_calls # <<>>
    /\ RAG_WhileCond(rag_count)

\* C14: the early-stop counter of self_RAG is per batch: the loop went on
\* after each batch whose own irrelevant count is below earlyend_num,
\* whatever the earlier batches counted, the break is taken only for a
\* batch that alone has at least earlyend_num irrelevant verdicts, and
\* irre_count holds the count of the last graded batch only.
C14_PerBatchCounter ==
    /\ \A k \in 1..Len(rag_calls) :
          (rag_calls[k].returned /\ (k < Len(rag_calls) \/ rag_pc = "while"))
             => RAG_IrrelevantIn(k) < rag_earlyend_num
    /\ RAG_StoppedEarly =>
          RAG_IrrelevantIn(Len(rag_calls)) >= rag_earlyend_num
    /\ (rag_calls # <<>> /\ rag_calls[Len(rag_calls)].returned) =>
          rag_irre_count = RAG_IrrelevantIn(Len(rag_calls))

\* Two batches with one irrelevant verdict each and earlyend_num = 2: the
\* loop went on after the second batch.
C14_Witness ==
    /\ Len(rag_calls) = 2
    /\ rag_calls[1].returned /\ rag_calls[2].returned
    /\ rag_earlyend_num = 2
    /\ RAG_IrrelevantIn(1) = 1
    /\ RAG_IrrelevantIn(2) = 1
    /\ rag_count = 2 * rag_process_num
    /\ rag_pc \in {"while", "done"}
    /\ ~RAG_StoppedEarly

\* C15: if the grading call raises during a batch of self_RAG the exception
\* leaves self_RAG: the call that raised is the last one made (no retry, no
\* further batch), self_RAG takes no further step and does not return, so
\* the results of the earlier batches are not handed to the caller.
C15_FailFast ==
    /\ \A k \in 1..Len(rag_calls) :
          ~rag_calls[k].returned => (k = Len(rag_calls) /\ rag_pc = "raised")
    /\ rag_pc = "raised" =>
          /\ rag_calls # <<>>
          /\ ~rag_calls[Len(rag_calls)].returned
          /\ ~ENABLED NextRAG

\* The grading call raises in the second batch, after the first batch put
\* documents in results and with documents left to grade.
C15_Witness ==
    /\ rag_pc = "raised"
    /\ Len(rag_calls) = 2
    /\ rag_calls[2].responses = <<>>
    /\ Len(rag_calls[2].idx) > 0
    /\ rag_results # <<>>
    /\ RAG_NextCount(rag_count) < Len(rag_docs)
    /\ RAG_NextCount(rag_count) < rag_max_view_num

\* The last grading call ended the loop: it raised or took the break.
RAG_LastCallEnded == rag_pc = "raised" \/ RAG_StoppedEarly

\* C17: self_RAG calls the grader once per batch, with one prompt per
\* candidate of the batch in the order of docs: call k is made for the
\* slice of docs that starts at (k - 1) * process_num and has process_num
\* candidates, or those that are left, and count is process_num times the
\* number of batches the loop went on after.
C17_OneCallPerBatch ==
    /\ \A k \in 1..Len(rag_calls) :
          LET start == (k - 1) * rag_process_num
              size == Min(rag_process_num, Len(rag_docs) - start) IN
          /\ rag_calls[k].idx = [j \in 1..size |-> start + j - 1]
          /\ rag_calls[k].returned =>
                Len(rag_calls[k].responses) = Len(rag_calls[k].idx)
    /\ rag_count = rag_process_num *
          (Len(rag_calls) - (IF RAG_LastCallEnded THEN 1 ELSE 0))

\* Three calls for five documents in batches of two: the last batch has
\* the one document left.
C17_Witness ==
    /\ rag_pc = "done"
    /\ rag_process_num = 2
    /\ Len(rag_docs) = 5
    /\ Len(rag_calls) = 3
    /\ rag_calls[3].idx = <<4>>
    /\ rag_calls[3].returned
    /\ rag_count = 6

\* C18: for process_num >= 1 the number of candidates self_RAG passes to
\* the grader is less than max_view_num + process_num.
C18_CeilingPlusBatch ==
    rag_process_num >= 1 =>
        RAG_Submitted(Len(rag_calls)) < rag_max_view_num + rag_process_num

\* A return after max_view_num + process_num - 1 candidates were passed to
\* the grader, more than max_view_num.
C18_Witness ==
    /\ rag_pc = "done"
    /\ rag_process_num >= 2
    /\ rag_max_view_num >= 1
    /\ RAG_Submitted(Len(rag_calls)) = rag_max_view_num + rag_process_num - 1

\* ceil(a / b) for a >= 0 and b >= 1.
CeilDiv(a, b) == (a + b - 1) \div b

\* self_RAG has returned or has let an exception of the grader through.
RAG_Terminated == rag_pc \in {"done", "raised"}

\* C29: for process_num >= 1 self_RAG terminates after at most
\* ceil(min(len(docs), max_view_num) / process_num) grading calls; with an
\* empty docs list it returns an empty list and never calls the grader.
C29_Terminates ==
    /\ [](rag_process_num >= 1 =>
            Len(rag_calls) <=
               CeilDiv(Min(Len(rag_docs), rag_max_view_num), rag_process_num))
    /\ [](rag_docs = <<>> =>
            rag_calls = <<>> /\ rag_results = <<>> /\ rag_pc # "raised")
    /\ <>RAG_Terminated

\* A return after exactly the bound's number of calls, all of which
\* returned, the last batch being a short one.
C29_Witness ==
    /\ rag_pc = "done"
    /\ rag_process_num >= 2
    /\ Min(Len(rag_docs), rag_max_view_num) % rag_process_num # 0
    /\ Len(rag_calls) >= 2
    /\ Len(rag_calls) =
          CeilDiv(Min(Len(rag_docs), rag_max_view_num), rag_process_num)
    /\ \A k \in 1..Len(rag_calls) : rag_calls[k].returned

(***************************************************************************)
(* Claims about self_RAG and check_relevant_answer together                *)
(***************************************************************************)
\* Both filters have returned, and the grader gave check_relevant_answer,
\* for each position self_RAG had graded, the response it gave self_RAG.
FiltersSameVerdicts ==
    /\ rag_pc = "done"
    /\ cra_pc = "done"
    /\ \A k \in 1..Len(rag_calls) : \A d \in 1..Len(rag_calls[k].idx) :
          rag_calls[k].responses[d] =
              cra_calls[1].responses[rag_calls[k].idx[d] + 1]

\* C16 as stated: check_relevant_answer has the loop of self_RAG
\* (consecutive batches, early stop per batch, view ceiling), so with the
\* same verdicts, batch size, threshold and ceiling the two select the same
\* positions.
C16_SameLoop ==
    FiltersSameVerdicts => cra_picked = rag_picked

\* C16 amended: check_relevant_answer has no loop.  It passes all of
\* batch_responses to the grader in one call, with no early stop and no
\* view ceiling, and selects every position graded relevant; with the same
\* verdicts self_RAG selects the positions check_relevant_answer selects
\* among those self_RAG passed to the grader, so the two select the same
\* positions when self_RAG passed every candidate.
C16_OneBatch ==
    /\ Len(cra_calls) <= 1
    /\ cra_pc # "call" =>
          /\ Len(cra_calls) = 1
          /\ cra_calls[1].idx =
                [k \in 1..Len(cra_batch_responses) |-> k - 1]
    /\ cra_pc = "done" =>
          /\ cra_picked =
                SelectSeq(cra_calls[1].idx,
                   LAMBDA p : Contains(Lower(cra_calls[1].responses[p + 1]),
                                       <<"y", "e", "s">>))
          /\ cra_results =
                [j \in 1..Len(cra_picked) |-> At(cra_batch_responses, cra_picked[j])]
    /\ FiltersSameVerdicts =>
          /\ rag_picked =
                SelectSeq(cra_picked,
                   LAMBDA p : p < RAG_Submitted(Len(rag_calls)))
          /\ RAG_Submitted(Len(rag_calls)) = Len(rag_docs)
                => cra_picked = rag_picked

\* With the same verdicts self_RAG stops at its view ceiling or by early
\* stop after selecting a position, and check_relevant_answer selects a
\* later position as well.
C16_Witness ==
    /\ FiltersSameVerdicts
    /\ rag_picked = <<0>>
    /\ cra_picked = <<0, 1>>
    /\ RAG_Submitted(Len(rag_calls)) = 1

\* "yes" is in the response, in any letter case.
C19_HasYes(response) ==
    \E i \in 1..(Len(response) - 2) :
        /\ response[i] \in {"y", "Y"}
        /\ response[i + 1] \in {"e", "E"}
        /\ response[i + 2] \in {"s", "S"}

\* The positions selected, as a set.
C19_Kept(picked) == {picked[j] : j \in 1..Len(picked)}

\* C19: in self_RAG and in check_relevant_answer a candidate of a grading
\* call that returned is kept if and only if its response has "yes" in it
\* in any letter case; in self_RAG every other response of the batch is
\* counted as irrelevant.
C19_YesAnyCase ==
    /\ \A k \in 1..Len(rag_calls) : rag_calls[k].returned =>
          \A d \in 1..Len(rag_calls[k].idx) :
             (rag_calls[k].idx[d] \in C19_Kept(rag_picked))
                <=> C19_HasYes(rag_calls[k].responses[d])
    /\ (rag_calls # <<>> /\ rag_calls[Len(rag_calls)].returned) =>
          rag_irre_count =
             Cardinality({d \in 1..Len(rag_calls[Len(rag_calls)].responses) :
                ~C19_HasYes(rag_calls[Len(rag_calls)].responses[d])})
    /\ cra_pc = "done" =>
          \A d \in 1..Len(cra_calls[1].idx) :
             (cra_calls[1].idx[d] \in C19_Kept(cra_picked))
                <=> C19_HasYes(cra_calls[1].responses[d])

\* Both filters returned: each kept a candidate answered "Yest" and dropped
\* one answered "no".
C19_Witness ==
    /\ rag_pc = "done"
    /\ cra_pc = "done"
    /\ Len(rag_calls) = 1
    /\ rag_calls[1].responses = << <<"Y", "e", "s", "t">>, <<"n", "o">> >>
    /\ rag_picked = <<0>>
    /\ cra_calls[1].responses = << <<"n", "o">>, <<"Y", "e", "s", "t">> >>
    /\ cra_picked = <<1>>

(***************************************************************************)
(* Claims about routers/datasets.py                                        *)
(***************************************************************************)
\* The users a config is shared with: none when the key is missing.
DS_SharedWith(data) ==
    IF data = DS_None \/ ~data.has_shared_users THEN {} ELSE data.shared_users

\* The uid of the last request.
DS_CallUid == generate_hash(ds_call.owner, ds_call.dataset_name)

\* C20 as stated: after a successful share_dataset every user that was in
\* shared_users of the dataset before the call is still in it, and every
\* user of the request is in it.
C20_ShareAdds ==
    (ds_call.op = "share" /\ ds_call.status = "success") =>
        /\ DS_SharedWith(ds_before) \subseteq DS_SharedWith(ds_store[DS_CallUid])
        /\ ToSet(ds_call.users) \subseteq DS_SharedWith(ds_store[DS_CallUid])

\* The entry of the list of get_use_dataset_list for the dataset of uid.
DS_Entry(uid) == [dataset_name |-> uid[2], owner |-> uid[1]]

\* C21: get_use_dataset_list(u) returns exactly the datasets that exist and
\* whose owner is u or whose shared_users has u.  After a successful
\* delete_share_dataset the list of a removed user who is not the owner does
\* not have the dataset, and after a successful delete_dataset nobody's
\* list has it.
C21_UseList ==
    /\ (ds_call.op = "get" /\ ds_call.status = "success") =>
          ds_response =
             {DS_Entry(uid) : uid \in
                {v \in DOMAIN ds_store :
                    \/ v[1] = ds_call.owner
                    \/ ds_call.owner \in DS_SharedWith(ds_store[v])}}
    /\ (ds_call.op = "delete_share" /\ ds_call.status = "success") =>
          \A u \in ToSet(ds_call.users) :
             u # ds_call.owner => DS_Entry(DS_CallUid) \notin DS_UseList(ds_store, u)
    /\ (ds_call.op = "delete" /\ ds_call.status = "success") =>
          \A u \in DS_Askers : DS_Entry(DS_CallUid) \notin DS_UseList(ds_store, u)

\* bob asks for his list: it has his own dataset and one of alice that is
\* shared with him, and carol, with whom that one is not shared, would get
\* neither.
C21_Witness ==
    /\ ds_call.op = "get"
    /\ ds_call.status = "success"
    /\ ds_call.owner = "bob"
    /\ Cardinality(ds_response) = 2
    /\ \E e \in ds_response : e.owner = "alice"
    /\ \E e \in ds_response : e.owner = "bob"
    /\ DS_UseList(ds_store, "carol") = {}

\* C22: a successful delete_share_dataset leaves shared_users as it was
\* before without the users of delete_users, and the rest of the config as
\* it was; for a dataset shared with nobody it returns 'fail' and leaves
\* the stored config as it was.
C22_DeleteShare ==
    /\ (ds_call.op = "delete_share" /\ ds_call.status = "success") =>
          /\ DS_SharedWith(ds_store[DS_CallUid])
                = DS_SharedWith(ds_before) \ ToSet(ds_call.users)
          /\ ds_store[DS_CallUid] =
                [ds_before EXCEPT
                    !.shared_users = DS_SharedWith(ds_store[DS_CallUid])]
    /\ (ds_call.op = "delete_share" /\ ds_before # DS_None
            /\ DS_SharedWith(ds_before) = {}) =>
          /\ ds_call.status = "fail"
          /\ ds_store[DS_CallUid] = ds_before

\* carol is removed from a dataset shared with bob and carol: bob stays.
C22_Witness ==
    /\ ds_call.op = "delete_share"
    /\ ds_call.status = "success"
    /\ ds_call.users = <<"carol">>
    /\ DS_SharedWith(ds_before) = {"bob", "carol"}
    /\ DS_SharedWith(ds_store[DS_CallUid]) = {"bob"}

\* The uid the last update_dataset request wrote to.
DS_EditUid == generate_hash(ds_call.owner, ds_edit.new_dataset_name)

\* The file names of a config.
DS_FileNamesOf(data) == {data.files[k].filename : k \in 1..Len(data.files)}

\* C23 as stated: after a successful update_dataset the entries of
\* delete_files that are not uploaded are gone from the files of the
\* config, and every file name of upload_files is in them, also a name that
\* is in delete_files of the same request.
C23_UploadsPresent ==
    (ds_call.op = "update" /\ ds_call.status = "success") =>
        /\ \A f \in ToSet(ds_edit.delete_files) \ ToSet(ds_edit.upload_files) :
              f \notin DS_FileNamesOf(ds_store[DS_EditUid])
        /\ \A f \in ToSet(ds_edit.upload_files) :
              f \in DS_FileNamesOf(ds_store[DS_EditUid])

\* C27 as stated: when update_dataset returns 'fail' for a dataset that has
\* a config, the config is still stored under its uid with the content it
\* had.
C27_FailKeepsConfig ==
    (/\ ds_call.op \in {"update", "update_config"}
     /\ ds_call.status = "fail"
     /\ ds_before # DS_None)
        => /\ DS_Exists(ds_store, DS_CallUid)
           /\ ds_store[DS_CallUid] = ds_before

\* C28 as stated: update_dataset that renames a dataset to the name of
\* another dataset of the owner leaves the config of that other dataset as
\* it was, and create_dataset for a name that has a config leaves that
\* config as it was.
C28_OtherConfigKept ==
    /\ (/\ ds_call.op = "update"
         /\ ds_call.status = "success"
         /\ ds_edit.new_dataset_name # ds_call.dataset_name
         /\ ds_edit.other # DS_None)
            => ds_store[DS_EditUid] = ds_edit.other
    /\ (/\ ds_call.op = "create"
         /\ ds_call.status = "success"
         /\ ds_before # DS_None)
            => ds_store[DS_CallUid] = ds_before

=============================================================================
